---- MODULE Spec2Model ----
(***************************************************************************)
(* A model of update.py (tunaflsh/external-mods-manager): the mod updater  *)
(* that reads mods.json, resolves for every enabled mod the upstream       *)
(* artifact matching the target game version, downloads it and replaces    *)
(* the previously downloaded file.                                         *)
(*                                                                         *)
(* Strings the code matches with regular expressions (versions, map keys,  *)
(* asset names, sources) are sequences of one-character strings, so that   *)
(* the matching is computed character by character as `re` computes it.    *)
(* File names are plain strings; a Content-Disposition header is a         *)
(* sequence of tokens.                                                     *)
(***************************************************************************)
EXTENDS Integers, Sequences, FiniteSets, TLC

VARIABLES
    pc,          \* position of main / of the driver of the specification
    manifest,    \* mods.json on disk: [version, mods]
    modlist,     \* the manifest as loaded by main (json.load), mutated in memory
    disk,        \* names of the files that exist in the working directory
    extractors,  \* the ModExtractor objects, in manifest order
    mods,        \* main's dict `mods`, as a sequence in insertion order
    idx,         \* index of the extractor main's loop is at
    log,         \* one record per download_jar call so far: how it ended
    exception,   \* the Python exception that left main, or "none"
    gets,        \* number of body transfers (SESSION.get on a jar url) so far
    writes,      \* number of times a jar file was opened for writing so far
    target,      \* find_matching_version: self.version
    mod_list,    \* find_matching_version: the keys of its argument
    found        \* find_matching_version: its result

vars == <<pc, manifest, modlist, disk, extractors, mods, idx, log,
          exception, gets, writes, target, mod_list, found>>

-----------------------------------------------------------------------------
(* Characters and strings                                                  *)

Digits == {"0", "1", "2", "3", "4", "5", "6", "7", "8", "9"}

Letters == {"a", "b", "c", "d", "e", "f", "g", "h", "i", "j", "k", "l", "m",
            "n", "o", "p", "q", "r", "s", "t", "u", "v", "w", "x", "y", "z"}

\* \w of Python's re, over the characters the model uses
WordChars == Digits \cup Letters \cup {"_"}

\* s[i..j] consists of digits only and is not empty: \d+
IsDigits(s, i, j) == i <= j /\ \A k \in i..j : s[k] \in Digits

\* s[i..j] consists of word characters only and is not empty: \w+
IsWord(s, i, j) == i <= j /\ \A k \in i..j : s[k] \in WordChars

\* the literal lit occurs in s at position p
LiteralAt(s, p, lit) ==
    /\ p >= 1
    /\ p + Len(lit) - 1 <= Len(s)
    /\ \A k \in 1..Len(lit) : s[p + k - 1] = lit[k]

\* (^|\D) just before position p: the start of the string, or a non-digit
BoundaryBefore(s, p) == p = 1 \/ (p > 1 /\ s[p - 1] \notin Digits)

\* str.split("."): the components of s between its dots
RECURSIVE SplitDot(_)
SplitDot(s) ==
    IF \A k \in 1..Len(s) : s[k] # "."
    THEN <<s>>
    ELSE LET d == CHOOSE k \in 1..Len(s) :
                      s[k] = "." /\ \A m \in 1..(k - 1) : s[m] # "."
         IN  <<SubSeq(s, 1, d - 1)>> \o SplitDot(SubSeq(s, d + 1, Len(s)))

-----------------------------------------------------------------------------
(* ModExtractor.find_matching_version                                      *)

\* A character of the interpolated version, read as a regular expression:
\* the dot is not escaped and matches any character.
PatternCharMatches(pch, ch) == pch = "." \/ pch = ch

\* re.search(rf"(^|\D){self.version}($|\D)$", key)
ExactSearch(version, key) ==
    \E p \in 1..Len(key) :
        LET e == p + Len(version) - 1 IN
        /\ BoundaryBefore(key, p)
        /\ e <= Len(key)
        /\ \A k \in 1..Len(version) :
               PatternCharMatches(version[k], key[p + k - 1])
        /\ \/ e = Len(key)
           \/ e + 1 = Len(key) /\ key[e + 1] \notin Digits

\* re.search(rf"(^|\D){a}\.{b}\.", key)
PatchSearch(a, b, key) ==
    \E p \in 1..Len(key) :
        /\ BoundaryBefore(key, p)
        /\ LiteralAt(key, p, a \o <<".">> \o b \o <<".">>)

ExactVersions(version, keys) == {k \in keys : ExactSearch(version, k)}

PatchVersions(version, keys) ==
    LET parts == SplitDot(version) IN
    {k \in keys : PatchSearch(parts[1], parts[2], k)}

NoneResult == [tag |-> "None", key |-> <<>>]
KeyResult(k) == [tag |-> "key", key |-> k]
\* `a, b, c = self.version.split(".")` with another number of components
ValueErrorResult == [tag |-> "ValueError", key |-> <<>>]

\* a faulty variant: an ambiguous tier picks one of its candidates
find_matching_version_pick(version, keys) ==
    LET exact == ExactVersions(version, keys) IN
    IF exact # {} THEN KeyResult(CHOOSE k \in exact : TRUE)
    ELSE IF Len(SplitDot(version)) # 3 THEN ValueErrorResult
    ELSE LET parts == SplitDot(version)
             patch == PatchVersions(version, keys)
             minor == parts[1] \o <<".">> \o parts[2]
         IN  IF patch # {} THEN KeyResult(CHOOSE k \in patch : TRUE)
             ELSE IF minor \in keys THEN KeyResult(minor)
             ELSE NoneResult

\* a faulty variant: the minor-only tier returns a.b without looking it up
find_matching_version_nolookup(version, keys) ==
    LET exact == ExactVersions(version, keys) IN
    IF Cardinality(exact) > 1 THEN NoneResult
    ELSE IF exact # {} THEN KeyResult(CHOOSE k \in exact : TRUE)
    ELSE IF Len(SplitDot(version)) # 3 THEN ValueErrorResult
    ELSE LET parts == SplitDot(version)
             patch == PatchVersions(version, keys)
             minor == parts[1] \o <<".">> \o parts[2]
         IN  IF Cardinality(patch) > 1 THEN NoneResult
             ELSE IF patch # {} THEN KeyResult(CHOOSE k \in patch : TRUE)
             ELSE KeyResult(minor)

find_matching_version(version, keys) ==
    LET exact == ExactVersions(version, keys) IN
    IF Cardinality(exact) > 1 THEN NoneResult
    ELSE IF exact # {} THEN KeyResult(CHOOSE k \in exact : TRUE)
    ELSE IF Len(SplitDot(version)) # 3 THEN ValueErrorResult
    ELSE LET parts == SplitDot(version)
             patch == PatchVersions(version, keys)
             minor == parts[1] \o <<".">> \o parts[2]
         IN  IF Cardinality(patch) > 1 THEN NoneResult
             ELSE IF patch # {} THEN KeyResult(CHOOSE k \in patch : TRUE)
             ELSE IF minor \in keys THEN KeyResult(minor)
             ELSE NoneResult

-----------------------------------------------------------------------------
(* ModExtractor.GITHUB_REGEX and GithubReleasesExtractor.VERSION_REGEX     *)

None == "None"
OK == 200

\* GITHUB_REGEX.match(source) is not None, for
\* ^(https?://)?github.com/(?P<owner>.+?)/(?P<repo>.+?)(\.git)?$
\* The dot of github.com is not escaped; owner and repo are not empty.
GithubMatches(source) ==
    \E start \in {1, 8, 9} :
        /\ \/ start = 1
           \/ start = 8 /\ LiteralAt(source, 1, <<"h", "t", "t", "p", ":", "/", "/">>)
           \/ start = 9 /\ LiteralAt(source, 1, <<"h", "t", "t", "p", "s", ":", "/", "/">>)
        /\ LiteralAt(source, start, <<"g", "i", "t", "h", "u", "b">>)
        /\ start + 6 <= Len(source)
        /\ LiteralAt(source, start + 7, <<"c", "o", "m", "/">>)
        /\ \E slash \in (start + 12)..(Len(source) - 1) : source[slash] = "/"

\* s[i..j] matches \d+\.\d+(?:\.\d+)?
DottedCore(s, i, j) ==
    \E d1 \in (i + 1)..(j - 1) :
        /\ s[d1] = "."
        /\ IsDigits(s, i, d1 - 1)
        /\ \/ IsDigits(s, d1 + 1, j)
           \/ \E d2 \in (d1 + 2)..(j - 1) :
                  /\ s[d2] = "."
                  /\ IsDigits(s, d1 + 1, d2 - 1)
                  /\ IsDigits(s, d2 + 1, j)

\* s[i..j] matches -pre\w+|-rc\w+
PreReleaseSuffix(s, i, j) ==
    \/ LiteralAt(s, i, <<"-", "p", "r", "e">>) /\ IsWord(s, i + 4, j)
    \/ LiteralAt(s, i, <<"-", "r", "c">>) /\ IsWord(s, i + 3, j)

\* s[i..j] matches \d+\.\d+(?:\.\d+)?(?:-pre\w+|-rc\w+)?|\d{2}w\d{2}\w+
GameVersionAt(s, i, j) ==
    \/ DottedCore(s, i, j)
    \/ \E e \in i..(j - 1) : DottedCore(s, i, e) /\ PreReleaseSuffix(s, e + 1, j)
    \/ /\ IsDigits(s, i, i + 1)
       /\ i + 2 <= j /\ s[i + 2] = "w"
       /\ IsDigits(s, i + 3, i + 4)
       /\ IsWord(s, i + 5, j)

\* The ways VERSION_REGEX can match name: <<i, j>> are the positions of the
\* hyphens around the game_version group: mod_name = name[1..i-1],
\* game_version = name[i+1..j-1], mod_version = name[j+1..n-4], then .jar
VersionRegexSplits(name) ==
    LET n == Len(name) IN
    {ij \in (2..n) \X (2..n) :
        /\ ij[1] + 1 < ij[2]
        /\ name[ij[1]] = "-"
        /\ name[ij[2]] = "-"
        /\ GameVersionAt(name, ij[1] + 1, ij[2] - 1)
        /\ ij[2] + 1 <= n - 4
        /\ LiteralAt(name, n - 3, <<".", "j", "a", "r">>)}

\* VERSION_REGEX.match(name): the lazy mod_name takes the first hyphen that
\* allows a match, the greedy optional groups of game_version the longest
\* game_version from there. <<>> stands for no match (None).
VersionRegexMatch(name) ==
    LET splits == VersionRegexSplits(name) IN
    IF splits = {} THEN [matched |-> FALSE, game_version |-> <<>>]
    ELSE LET i == CHOOSE a \in {ij[1] : ij \in splits} :
                      \A b \in {ij[1] : ij \in splits} : a <= b
             js == {ij[2] : ij \in {x \in splits : x[1] = i}}
             j == CHOOSE a \in js : \A b \in js : b <= a
         IN  [matched |-> TRUE, game_version |-> SubSeq(name, i + 1, j - 1)]

-----------------------------------------------------------------------------
(* extract_jars of the two extractors                                      *)

\* for release in releases for asset in release["assets"]
RECURSIVE AssetsOf(_)
AssetsOf(releases) ==
    IF releases = <<>> THEN <<>>
    ELSE Head(releases) \o AssetsOf(Tail(releases))

\* the dict d after d[key] = value
DictSet(d, key, value) ==
    [k \in DOMAIN d \cup {key} |-> IF k = key THEN value ELSE d[k]]

EmptyDict == [k \in {} |-> None]

\* the dict comprehension of lines 295-301 over the assets in order;
\* subscripting the None of a failed match raises TypeError
RECURSIVE GameVersionDict(_, _)
GameVersionDict(assets, d) ==
    IF assets = <<>> THEN [tag |-> "ok", jars |-> d]
    ELSE LET m == VersionRegexMatch(Head(assets).name) IN
         IF ~m.matched THEN [tag |-> "TypeError", jars |-> EmptyDict]
         ELSE GameVersionDict(Tail(assets),
                  DictSet(d, m.game_version, Head(assets).browser_download_url))

\* GithubReleasesExtractor.extract_jars; response is what
\* SESSION.get(releases_url) answers: [status_code, releases]
GithubReleases_extract_jars(source, response) ==
    IF ~GithubMatches(source) THEN [tag |-> "AttributeError", jars |-> EmptyDict]
    ELSE IF response.status_code # OK THEN [tag |-> "None", jars |-> EmptyDict]
    ELSE IF response.releases = <<>> THEN [tag |-> "None", jars |-> EmptyDict]
    ELSE GameVersionDict(AssetsOf(response.releases), EmptyDict)

\* README.md as a sequence of lines: [kind |-> "heading", title], 
\* [kind |-> "row", mc_version, jar_url] for a table row the row pattern of
\* line 250 matches, [kind |-> "text"] for any other line.
IsHeading(line) == line.kind = "heading"
IsVersionTab(line) == line.kind = "heading" /\ line.title = "Version Tab"

\* re.search(r"#+\s+Version Tab\n(.*?)\n#+\s+", text, re.DOTALL): the lines
\* of group 1, from the line after the first Version Tab heading up to the
\* next heading that starts at least one line further; <<>> with found FALSE
\* when there is no such pair of headings.
VersionTab(lines) ==
    LET n == Len(lines)
        hs == {h \in 1..n : IsVersionTab(lines[h])
                            /\ \E k \in (h + 2)..n : IsHeading(lines[k])}
    IN  IF hs = {} THEN [found |-> FALSE, body |-> <<>>]
        ELSE LET h == CHOOSE a \in hs : \A b \in hs : a <= b
                 ks == {k \in (h + 2)..n : IsHeading(lines[k])}
                 k == CHOOSE a \in ks : \A b \in ks : a <= b
             IN  [found |-> TRUE, body |-> SubSeq(lines, h + 1, k - 1)]

\* the dict comprehension of lines 247-253 over the rows of the table
RECURSIVE RowDict(_, _)
RowDict(lines, d) ==
    IF lines = <<>> THEN d
    ELSE IF Head(lines).kind = "row"
         THEN RowDict(Tail(lines),
                  DictSet(d, Head(lines).mc_version, Head(lines).jar_url))
         ELSE RowDict(Tail(lines), d)

\* SeedcrackerXExtractor.extract_jars; response is what SESSION.get(readme)
\* answers: [status_code, lines]
SeedcrackerX_extract_jars(source, response) ==
    IF ~GithubMatches(source) THEN [tag |-> "AttributeError", jars |-> EmptyDict]
    ELSE IF response.status_code # OK THEN [tag |-> "None", jars |-> EmptyDict]
    ELSE LET version_tab == VersionTab(response.lines) IN
         IF ~version_tab.found THEN [tag |-> "None", jars |-> EmptyDict]
         ELSE [tag |-> "ok", jars |-> RowDict(version_tab.body, EmptyDict)]

\* extractor_factory chooses the class by the mod's name; self.extract_jars()
extract_jars(self, response) ==
    IF self.name = "SeedcrackerX"
    THEN SeedcrackerX_extract_jars(self.source, response)
    ELSE GithubReleases_extract_jars(self.source, response)

-----------------------------------------------------------------------------
(* ModExtractor.download_jar                                               *)

\* "filename=" in content_disposition
HasFilename(cd) == \E i \in 1..Len(cd) : cd[i] = "filename="

\* content_disposition.split("filename=")[1]: what stands between the first
\* "filename=" and the next one, or the end
AfterFilename(cd) ==
    LET first == CHOOSE i \in 1..Len(cd) :
                     cd[i] = "filename=" /\ \A k \in 1..(i - 1) : cd[k] # "filename="
        nexts == {i \in (first + 1)..Len(cd) : cd[i] = "filename="}
        last  == IF nexts = {} THEN Len(cd)
                 ELSE (CHOOSE a \in nexts : \A b \in nexts : a <= b) - 1
    IN  SubSeq(cd, first + 1, last)

\* .strip('"'): without the quotes at both ends
RECURSIVE StripQuotes(_)
StripQuotes(toks) ==
    IF toks = <<>> THEN <<>>
    ELSE IF Head(toks) = "\"" THEN StripQuotes(Tail(toks))
    ELSE IF toks[Len(toks)] = "\"" THEN StripQuotes(SubSeq(toks, 1, Len(toks) - 1))
    ELSE toks

\* urllib.parse.unquote on one token: a percent escape is decoded
Unquote(tok) ==
    IF tok = "%2D" THEN "-" ELSE IF tok = "%2E" THEN "." ELSE tok

RECURSIVE JoinUnquoted(_)
JoinUnquoted(toks) ==
    IF toks = <<>> THEN "" ELSE Unquote(Head(toks)) \o JoinUnquoted(Tail(toks))

\* lines 177-178: the file name a Content-Disposition header gives
FilenameOf(cd) == JoinUnquoted(StripQuotes(AfterFilename(cd)))

\* a faulty variant: the existence check of line 181 is missing
already_up_to_date_never(dsk, file) == FALSE

\* line 181: os.path.exists(file)
already_up_to_date(dsk, file) == file \in dsk

\* a faulty variant: the file is opened for writing before the status is looked at
transfer_open_first(dsk, file, old_file, response) ==
    IF response.status_code # OK
    THEN [ret |-> FALSE, outcome |-> "GetFailed", disk |-> dsk \cup {file},
          wrote |-> 1]
    ELSE [ret |-> TRUE, outcome |-> "Updated",
          disk |-> (dsk \cup {file}) \
                   (IF old_file # None /\ old_file # "" /\ old_file # file
                       /\ old_file \in dsk
                    THEN {old_file} ELSE {}),
          wrote |-> 1]

\* lines 187-205: the body transfer into `file` and the removal of old_file
transfer(dsk, file, old_file, response) ==
    IF response.status_code # OK
    THEN [ret |-> FALSE, outcome |-> "GetFailed", disk |-> dsk, wrote |-> 0]
    ELSE [ret |-> TRUE, outcome |-> "Updated",
          disk |-> (dsk \cup {file}) \
                   (IF old_file # None /\ old_file # "" /\ old_file # file
                       /\ old_file \in dsk
                    THEN {old_file} ELSE {}),
          wrote |-> 1]

\* the result of a download_jar call that ends before line 179
EarlyResult(self, dsk, raised, outcome_, jar_url) ==
    [raised |-> raised, ret |-> FALSE, outcome |-> outcome_, self |-> self,
     disk |-> dsk, got |-> 0, wrote |-> 0, old_file |-> self.file,
     jar_url |-> jar_url]

\* lines 185-205: the call after the transfer t
download_jar_transferred(self, old_file, jar_url, t) ==
    [raised |-> "none", ret |-> t.ret, outcome |-> t.outcome, self |-> self,
     disk |-> t.disk, got |-> 1, wrote |-> t.wrote, old_file |-> old_file,
     jar_url |-> jar_url]

\* lines 179-205: self.file becomes the new name; nothing is transferred when
\* a file of that name exists
download_jar_named(self, dsk, env, jar_url, old_file, file) ==
    IF already_up_to_date(dsk, file)
    THEN [raised |-> "none", ret |-> TRUE, outcome |-> "AlreadyCurrent",
          self |-> [self EXCEPT !.file = file], disk |-> dsk, got |-> 0,
          wrote |-> 0, old_file |-> old_file, jar_url |-> jar_url]
    ELSE download_jar_transferred([self EXCEPT !.file = file], old_file, jar_url,
                                  transfer(dsk, file, old_file, env.get))

\* lines 155-178: fm is what find_matching_version returned; jars[version],
\* the HEAD request and the file name of its Content-Disposition
download_jar_matched(self, dsk, env, jars, fm) ==
    IF fm.tag = "ValueError"
    THEN EarlyResult(self, dsk, "ValueError", "Raised", None)
    ELSE IF fm.tag = "None" \/ fm.key = <<>>
    THEN EarlyResult(self, dsk, "none", "NoVersion", None)
    ELSE IF fm.key \notin DOMAIN jars
    THEN EarlyResult(self, dsk, "KeyError", "Raised", None)
    ELSE IF env.head.status_code # OK
    THEN EarlyResult([self EXCEPT !.version = fm.key], dsk, "none", "HeadFailed",
                     jars[fm.key])
    ELSE IF ~HasFilename(env.head.content_disposition)
    THEN EarlyResult([self EXCEPT !.version = fm.key], dsk, "none", "NoFilename",
                     jars[fm.key])
    ELSE download_jar_named([self EXCEPT !.version = fm.key], dsk, env,
                            jars[fm.key], self.file,
                            FilenameOf(env.head.content_disposition))

\* lines 150-154: ex is what extract_jars returned or raised
download_jar_extracted(self, dsk, env, ex) ==
    IF ex.tag \in {"AttributeError", "TypeError"}
    THEN EarlyResult(self, dsk, ex.tag, "Raised", None)
    ELSE IF ex.tag = "None" \/ DOMAIN ex.jars = {}
    THEN EarlyResult(self, dsk, "none", "ExtractFailed", None)
    ELSE download_jar_matched(self, dsk, env, ex.jars,
                              find_matching_version(self.version, DOMAIN ex.jars))

\* download_jar of the extractor self with the files dsk on disk; env holds
\* what the network answers: env.source to the request of extract_jars,
\* env.head to SESSION.head(jar_url), env.get to SESSION.get(jar_url).
\* In the result, raised names the exception that leaves the call, or is
\* "none"; self is the extractor after the call.
download_jar(self, dsk, env) ==
    download_jar_extracted(self, dsk, env, extract_jars(self, env.source))

-----------------------------------------------------------------------------
(* The inputs: manifests, files, and what the network can answer           *)

MaxMods == 2       \* mods in a manifest
MaxReleases == 2   \* releases in a releases listing
MaxLines == 3      \* lines of a README.md
MaxCalls == 2      \* download_jar calls on one extractor
MaxKeys == 3       \* keys of a VersionMap given to find_matching_version

V_1_20_1 == <<"1", ".", "2", "0", ".", "1">>
V_1_20 == <<"1", ".", "2", "0">>
V_1_20_2 == <<"1", ".", "2", "0", ".", "2">>
V_1_19_4 == <<"1", ".", "1", "9", ".", "4">>
V_24w10a == <<"2", "4", "w", "1", "0", "a">>

\* the target versions (modlist["version"])
Targets == {V_1_20_1, V_1_20}

\* sources: one that GITHUB_REGEX matches, one it does not
Sources == {<<"g", "i", "t", "h", "u", "b", ".", "c", "o", "m", "/", "o", "/", "r">>,
            <<"g", "i", "t", "l", "a", "b", ".", "c", "o", "m", "/", "o", "/", "r">>}

\* the mod names, by position in the manifest; extractor_factory gives the
\* second its own extractor class
NameAt(i) == IF i = 2 THEN "SeedcrackerX"
             ELSE IF i = 1 THEN "itemscroller"
             ELSE "mod" \o ToString(i)

Files == {"mod-1.0.jar", "mod-1.1.jar"}

\* the seqs over S of at most n elements
RECURSIVE SeqsUpTo(_, _)
SeqsUpTo(S, n) ==
    IF n = 0 THEN {<<>>}
    ELSE LET shorter == SeqsUpTo(S, n - 1) IN
         shorter \cup {Append(q, x) : q \in {r \in shorter : Len(r) = n - 1}, x \in S}

\* a mod of mods.json at position i; one that was never downloaded records
\* neither version nor file
ModEntries(i) ==
    {[name |-> NameAt(i), source |-> src, disabled |-> dis,
      version |-> IF f = None THEN <<>> ELSE V_1_19_4, file |-> f] :
        src \in Sources, dis \in BOOLEAN, f \in Files \cup {None}}

RECURSIVE ModLists(_)
ModLists(n) ==
    IF n = 0 THEN {<<>>}
    ELSE {Append(q, m) : q \in ModLists(n - 1), m \in ModEntries(n)}

Manifests ==
    {[version |-> v, mods |-> ms] :
        v \in Targets, ms \in UNION {ModLists(n) : n \in 1..MaxMods}}

RecordedFiles(mf) ==
    {mf.mods[i].file : i \in 1..Len(mf.mods)} \ {None}

\* release assets: name and browser_download_url
Assets ==
    {[name |-> <<"m", "-", "1", ".", "2", "0", ".", "1", "-", "7", ".", "j", "a", "r">>,
      browser_download_url |-> "https://dl/1"],
     [name |-> <<"m", "-", "1", ".", "2", "0", ".", "2", "-", "p", "r", "e", "1", "-", "7", ".", "j", "a", "r">>,
      browser_download_url |-> "https://dl/2"],
     [name |-> <<"m", "-", "s", "r", "c", ".", "j", "a", "r">>,
      browser_download_url |-> "https://dl/3"],
     [name |-> <<"m", "-", "1", ".", "2", "0", "-", "7", ".", "j", "a", "r">>,
      browser_download_url |-> "https://dl/4"]}

\* a release carries no asset or one
Releases == {<<>>} \cup {<<a>> : a \in Assets}

StatusCodes == {OK, 404}

ReleasesResponses ==
    {[status_code |-> 404, releases |-> <<>>]}
    \cup {[status_code |-> OK, releases |-> rl] : rl \in SeqsUpTo(Releases, MaxReleases)}

ReadmeLinePool ==
    {[kind |-> "heading", title |-> "Version Tab", mc_version |-> <<>>, jar_url |-> ""],
     [kind |-> "heading", title |-> "Usage", mc_version |-> <<>>, jar_url |-> ""],
     [kind |-> "row", title |-> "", mc_version |-> V_1_20_1, jar_url |-> "https://dl/5"],
     [kind |-> "row", title |-> "", mc_version |-> V_1_20_2, jar_url |-> "https://dl/6"]}

ReadmeResponses ==
    {[status_code |-> 404, lines |-> <<>>]}
    \cup {[status_code |-> OK, lines |-> ls] : ls \in SeqsUpTo(ReadmeLinePool, MaxLines)}

ContentDispositions ==
    {<<>>,
     <<"attachment">>,
     <<"attachment; ", "filename=", "mod-1.0.jar">>,
     <<"attachment; ", "filename=", "\"", "mod-1.1.jar", "\"">>,
     <<"attachment; ", "filename=", "mod", "%2D", "1.1.jar">>}

HeadResponses ==
    {[status_code |-> 404, content_disposition |-> <<>>]}
    \cup {[status_code |-> OK, content_disposition |-> cd] : cd \in ContentDispositions}

GetResponses == {[status_code |-> c] : c \in StatusCodes}

\* the answer to a request that the call never issues
Unissued == [status_code |-> 0, content_disposition |-> <<>>]

SourceResponses(self) ==
    IF self.name = "SeedcrackerX" THEN ReadmeResponses ELSE ReleasesResponses

\* Source responses that stand for all of them: download_jar reads its
\* source response through extract_jars only, which looks at the name and
\* the source of the extractor, so for every name and source one response
\* is kept for every result extract_jars can have.
RepresentativesOf(name, source) ==
    LET self == [name |-> name, source |-> source]
        results == {<<extract_jars(self, r), r>> : r \in SourceResponses(self)}
    IN  {(CHOOSE p \in results : p[1] = x)[2] : x \in {q[1] : q \in results}}

RepresentativeTable ==
    [name \in {NameAt(i) : i \in 1..MaxMods}, source \in Sources |->
        RepresentativesOf(name, source)]

SourceRepresentatives(self) == RepresentativeTable[self.name, self.source]

\* what the network can answer to the requests of one download_jar call;
\* a request the call does not get to has no answer
Answers(self, dsk) ==
    UNION {
        IF download_jar(self, dsk, [source |-> src, head |-> Unissued,
                                    get |-> Unissued]).outcome # "HeadFailed"
        THEN {[source |-> src, head |-> Unissued, get |-> Unissued]}
        ELSE UNION {
            IF download_jar(self, dsk, [source |-> src, head |-> h,
                                        get |-> Unissued]).outcome # "GetFailed"
            THEN {[source |-> src, head |-> h, get |-> Unissued]}
            ELSE {[source |-> src, head |-> h, get |-> g] : g \in GetResponses}
            : h \in HeadResponses}
        : src \in SourceRepresentatives(self)}

-----------------------------------------------------------------------------
(* main                                                                    *)

IsDisabled(mod) == mod.disabled
IsEnabled(mod) == ~mod.disabled

\* lines 57-60 on one mod of the manifest: `del mod["file"]`
WithoutFile(mod) ==
    IF mod.disabled /\ mod.file # None /\ mod.file # ""
    THEN [mod EXCEPT !.file = None]
    ELSE mod

\* extractor_factory and ModExtractor.__init__
extractor_factory(name, version, source, file) ==
    [name |-> IF name = "SeedcrackerX" THEN "SeedcrackerX" ELSE name,
     version |-> version, source |-> source, file |-> file]

\* mods[name] = entry on the dict `mods`, kept as a sequence in insertion order
ModsSet(ms, entry) ==
    IF \E i \in 1..Len(ms) : ms[i].name = entry.name
    THEN [i \in 1..Len(ms) |-> IF ms[i].name = entry.name THEN entry ELSE ms[i]]
    ELSE Append(ms, entry)

\* lines 69-75: the entry of `mods` for the extractor self whose download_jar
\* call ended as r
ModEntry(self, r) ==
    [name |-> self.name, source |-> self.source, disabled |-> FALSE,
     version |-> IF r.ret THEN r.self.version ELSE <<>>,
     file |-> IF r.ret THEN r.self.file ELSE None]

LogRecord(self, r) ==
    [name |-> self.name, outcome |-> r.outcome, ret |-> r.ret,
     old_file |-> r.old_file, file |-> r.self.file, jar_url |-> r.jar_url,
     got |-> r.got, wrote |-> r.wrote]

\* lines 39-65: load mods.json, delete the files of the disabled mods, build
\* the extractors of the enabled ones
MainStart ==
    /\ pc = "start"
    /\ LET loaded == manifest
           removing == {loaded.mods[i].file : i \in
                           {k \in 1..Len(loaded.mods) :
                               /\ loaded.mods[k].disabled
                               /\ loaded.mods[k].file # None
                               /\ loaded.mods[k].file # ""}}
           kept == [i \in 1..Len(loaded.mods) |-> WithoutFile(loaded.mods[i])]
           enabled_mods == SelectSeq(kept, IsEnabled)
       IN  /\ modlist' = [version |-> loaded.version, mods |-> kept]
           /\ disk' = disk \ removing
           /\ extractors' =
                  [i \in 1..Len(enabled_mods) |->
                      extractor_factory(enabled_mods[i].name, loaded.version,
                                        enabled_mods[i].source, enabled_mods[i].file)]
    /\ mods' = <<>>
    /\ idx' = 1
    /\ pc' = "loop"
    /\ UNCHANGED <<manifest, log, exception, gets, writes, target, mod_list, found>>

\* lines 68-75, one iteration: the entry of the mod, then download_jar; an
\* exception that leaves download_jar leaves main
MainLoop ==
    /\ pc = "loop"
    /\ idx <= Len(extractors)
    /\ \E env \in Answers(extractors[idx], disk) :
       \E r \in {download_jar(extractors[idx], disk, env)} :
            /\ mods' = ModsSet(mods, ModEntry(extractors[idx], r))
            /\ extractors' = [extractors EXCEPT ![idx] = r.self]
            /\ disk' = r.disk
            /\ gets' = gets + r.got
            /\ writes' = writes + r.wrote
            /\ log' = Append(log, LogRecord(extractors[idx], r))
            /\ exception' = r.raised
            /\ pc' = IF r.raised # "none" THEN "aborted" ELSE "loop"
            /\ idx' = IF r.raised # "none" THEN idx ELSE idx + 1
    /\ UNCHANGED <<manifest, modlist, target, mod_list, found>>

\* lines 77-80: the enabled mods' entries, then the disabled mods, are written
MainWrite ==
    /\ pc = "loop"
    /\ idx > Len(extractors)
    /\ LET written == [version |-> modlist.version,
                       mods |-> mods \o SelectSeq(modlist.mods, IsDisabled)]
       IN  /\ modlist' = written
           /\ manifest' = written
    /\ pc' = "done"
    /\ UNCHANGED <<disk, extractors, mods, idx, log, exception, gets, writes,
                   target, mod_list, found>>

NoResult == [tag |-> "pending", key |-> <<>>]

\* main is started in a directory that holds mods.json and the files it
\* records
Init ==
    /\ pc = "start"
    /\ manifest \in Manifests
    /\ disk = RecordedFiles(manifest)
    /\ modlist = [version |-> <<>>, mods |-> <<>>]
    /\ extractors = <<>>
    /\ mods = <<>>
    /\ idx = 0
    /\ log = <<>>
    /\ exception = "none"
    /\ gets = 0
    /\ writes = 0
    /\ target = <<>>
    /\ mod_list = {}
    /\ found = NoResult

Next == MainStart \/ MainLoop \/ MainWrite

Spec == Init /\ [][Next]_vars

-----------------------------------------------------------------------------
(* download_jar called again and again on one extractor                    *)

InitFetch ==
    /\ pc = "fetch"
    /\ manifest = [version |-> <<>>, mods |-> <<>>]
    /\ modlist = [version |-> <<>>, mods |-> <<>>]
    /\ disk \in SUBSET Files
    /\ extractors \in {<<extractor_factory(n, v, src, f)>> :
                          n \in {NameAt(1), NameAt(2)}, v \in Targets,
                          src \in Sources, f \in Files \cup {None}}
    /\ mods = <<>>
    /\ idx = 1
    /\ log = <<>>
    /\ exception = "none"
    /\ gets = 0
    /\ writes = 0
    /\ target = <<>>
    /\ mod_list = {}
    /\ found = NoResult

\* one call of download_jar on the extractor, with the self.version and
\* self.file the calls before left in it
FetchCall ==
    /\ pc = "fetch"
    /\ Len(log) < MaxCalls
    /\ \E env \in Answers(extractors[1], disk) :
       \E r \in {download_jar(extractors[1], disk, env)} :
            /\ extractors' = <<r.self>>
            /\ disk' = r.disk
            /\ gets' = gets + r.got
            /\ writes' = writes + r.wrote
            /\ log' = Append(log, LogRecord(extractors[1], r))
            /\ exception' = r.raised
            /\ pc' = IF r.raised # "none" THEN "aborted" ELSE "fetch"
    /\ UNCHANGED <<manifest, modlist, mods, idx, target, mod_list, found>>

NextFetch == FetchCall

SpecFetch == InitFetch /\ [][NextFetch]_vars

-----------------------------------------------------------------------------
(* find_matching_version on its own                                        *)

V_1_20_1_pre1 == <<"1", ".", "2", "0", ".", "1", "-", "p", "r", "e", "1">>
V_1_20_1_pre2 == <<"1", ".", "2", "0", ".", "1", "-", "p", "r", "e", "2">>

\* keys of a VersionMap, as upstreams publish them
KeyPool == {V_1_20_1, V_1_20, V_1_20_2, V_1_19_4, V_24w10a,
            V_1_20_1_pre1, V_1_20_1_pre2,
            <<"v", "1", ".", "2", "0", ".", "1">>,
            <<"1", ".", "2", "0", ".", "1", "0">>}

MatchTargets == {V_1_20_1, V_1_20, V_24w10a}

InitMatch ==
    /\ pc = "match"
    /\ target \in MatchTargets
    /\ mod_list \in {ks \in SUBSET KeyPool : Cardinality(ks) <= MaxKeys}
    /\ found = NoResult
    /\ manifest = [version |-> <<>>, mods |-> <<>>]
    /\ modlist = [version |-> <<>>, mods |-> <<>>]
    /\ disk = {}
    /\ extractors = <<>>
    /\ mods = <<>>
    /\ idx = 0
    /\ log = <<>>
    /\ exception = "none"
    /\ gets = 0
    /\ writes = 0

FindMatchingVersion ==
    /\ pc = "match"
    /\ found' = find_matching_version(target, mod_list)
    /\ pc' = "matched"
    /\ UNCHANGED <<manifest, modlist, disk, extractors, mods, idx, log,
                   exception, gets, writes, target, mod_list>>

NextMatch == FindMatchingVersion

SpecMatch == InitMatch /\ [][NextMatch]_vars

-----------------------------------------------------------------------------
(* The claims                                                              *)

LastCall == log[Len(log)]

\* the download_jar outcomes that return False or raise
FailureOutcomes == {"Raised", "ExtractFailed", "NoVersion", "HeadFailed",
                    "NoFilename", "GetFailed"}

\* C1: a failure while updating one mod ends only that mod's update attempt:
\* whatever way a download_jar call failed, main is not left by an exception,
\* and once it has written the manifest every extractor has been processed.
C1_FailureEndsOnlyThatMod ==
    \A i \in 1..Len(log) :
        log[i].outcome \in FailureOutcomes =>
            /\ pc # "aborted"
            /\ exception = "none"
            /\ pc = "done" => Len(log) = Len(extractors)

\* C2: the entry main writes for an enabled mod whose download_jar returned
\* False keeps the version and the file the manifest read at start records
\* for that mod.
C2_FailedModKeepsRecord ==
    [][(pc = "loop" /\ pc' = "done") =>
        \A i \in 1..Len(log) :
            ~log[i].ret =>
                \E j \in 1..Len(manifest.mods), k \in 1..Len(manifest'.mods) :
                    /\ manifest.mods[j].name = log[i].name
                    /\ manifest'.mods[k].name = log[i].name
                    /\ manifest'.mods[k].version = manifest.mods[j].version
                    /\ manifest'.mods[k].file = manifest.mods[j].file]_vars

\* C3: for a target that does not consist of exactly three dot-separated
\* components and a map with no exact-tier match, find_matching_version does
\* not raise: it returns a key of the map or None.
C3_NoThreeComponentsNoRaise ==
    (pc = "matched" /\ Len(SplitDot(target)) # 3
                    /\ ExactVersions(target, mod_list) = {}) =>
        \/ found.tag = "None"
        \/ found.tag = "key" /\ found.key \in mod_list

\* C4: when the map has the target itself as a key, find_matching_version
\* returns that key, whatever other keys the map has.
C4_ExactKeyIsReturned ==
    (pc = "matched" /\ target \in mod_list) => found = KeyResult(target)

\* C5: when the exact tier, or the patch-wildcard tier once it is tried,
\* finds two or more candidate keys, the result is None; in particular for
\* target 1.20.1 and the keys 1.20.1-pre1 and 1.20.1-pre2.
C5_AmbiguityIsAbsence ==
    pc = "matched" =>
        /\ Cardinality(ExactVersions(target, mod_list)) >= 2 => found = NoneResult
        /\ ( /\ ExactVersions(target, mod_list) = {}
             /\ Len(SplitDot(target)) = 3
             /\ Cardinality(PatchVersions(target, mod_list)) >= 2 )
               => found = NoneResult
        /\ (target = V_1_20_1 /\ mod_list = {V_1_20_1_pre1, V_1_20_1_pre2})
               => found = NoneResult

\* the ambiguous map of the claim has been resolved
C5_Witness ==
    /\ pc = "matched"
    /\ target = V_1_20_1
    /\ mod_list = {V_1_20_1_pre1, V_1_20_1_pre2}
    /\ found.tag = "None"

\* C6: a version find_matching_version returns is a key of its input map.
C6_ResultIsKey ==
    (pc = "matched" /\ found.tag = "key") => found.key \in mod_list

\* a key other than the target was returned by the minor-only tier
C6_Witness ==
    /\ pc = "matched"
    /\ target = V_1_20_1
    /\ found = KeyResult(V_1_20)
    /\ V_1_20 \in mod_list

\* C7: whenever download_jar returns True for a mod whose previous file is
\* set and differs from the new file name, the previous file no longer
\* exists on disk and the new file does.
C7_OneResidentFile ==
    (Len(log) > 0 /\ LastCall.ret
                  /\ LastCall.old_file # None
                  /\ LastCall.old_file # LastCall.file) =>
        /\ LastCall.old_file \notin disk
        /\ LastCall.file \in disk

\* C8: at the end of main, started with every recorded file on disk, every
\* entry of the written manifest that records a file records one that exists.
C8_RecordedFilesExist ==
    pc = "done" =>
        \A k \in 1..Len(manifest.mods) :
            manifest.mods[k].file # None => manifest.mods[k].file \in disk

\* C9: a download_jar call that fails at the HEAD request, at the file name
\* of Content-Disposition or at the GET request leaves the files on disk as
\* they were: none created, written or deleted.
C9_FailedFetchLeavesDisk ==
    [][(Len(log') = Len(log) + 1
        /\ log'[Len(log')].outcome \in {"HeadFailed", "NoFilename", "GetFailed"}) =>
            /\ disk' = disk
            /\ writes' = writes]_vars

\* a call failed at the GET request while the previous file was on disk
C9_Witness ==
    /\ Len(log) > 0
    /\ LastCall.outcome = "GetFailed"
    /\ LastCall.old_file \in disk
    /\ LastCall.file \notin disk

\* C10: a first download_jar call with no prior file that transfers creates
\* the file with one GET; a call that follows a transfer and gets the same
\* url and file name is already up to date: it returns True, issues no GET
\* and leaves the file as it is.
C10_FetchIsIdempotent ==
    /\ \A n \in 1..Len(log) :
           log[n].outcome = "Updated" =>
               /\ log[n].got = 1 /\ log[n].wrote = 1
               /\ n = Len(log) => log[n].file \in disk
    /\ \A n \in 2..Len(log) :
           ( /\ log[n - 1].outcome = "Updated"
             /\ log[n].jar_url = log[n - 1].jar_url
             /\ log[n].file = log[n - 1].file
             /\ log[n].outcome \in {"AlreadyCurrent", "GetFailed", "Updated"} )
           => /\ log[n].outcome = "AlreadyCurrent"
              /\ log[n].ret
              /\ log[n].got = 0 /\ log[n].wrote = 0
              /\ n = Len(log) => log[n].file \in disk

\* the file was transferred by the first call and found by the second
C10_Witness ==
    /\ Len(log) = 2
    /\ log[1].old_file = None
    /\ log[1].outcome = "Updated"
    /\ log[2].outcome = "AlreadyCurrent"
    /\ log[2].old_file = log[1].file
    /\ log[2].file = log[1].file
    /\ log[2].jar_url = log[1].jar_url
    /\ gets = 1 /\ writes = 1
    /\ log[2].file \in disk

====
